---- MODULE Spec2Model ----
(***************************************************************************)
(* Connection lifecycle of createClient (src/src/client/client.ts).        *)
(*                                                                         *)
(* The client is a closure over socket, channelInfo, connectionState,      *)
(* reconnectAttempts, reconnectTimer, heartbeatTimer, isDisconnected and   *)
(* an EventEmitter.  Every handler of the source is one action; the        *)
(* handlers are written as functions from a record of the closure's        *)
(* variables to the record after the call, composed in the order of the    *)
(* source's statements.                                                    *)
(*                                                                         *)
(* Environment (not code of the repository): the channel resolver          *)
(* (fetch/json), the ws transport (open, error followed by close, close)   *)
(* and the node event loop (a timer callback or a transport event runs to  *)
(* its first await; a promise continuation runs before the next task; an   *)
(* `error` event nobody listens to is thrown).                             *)
(*                                                                         *)
(* Objects that differ only in identity are kept as bags: the transports   *)
(* `socket` no longer refers to, the connect() calls awaiting the          *)
(* resolver, the pending timers.                                           *)
(*                                                                         *)
(* Specifications: Spec (the lifecycle, any caller and any environment),   *)
(* Recovery (the environment never fails, fair timers and transports),     *)
(* Registry (subscriptions, frames and callbacks that return, throw,       *)
(* disconnect, subscribe or unsubscribe), Reconnects (subscriptions        *)
(* across closes and automatic reconnections), Frames (the decoder on      *)
(* every tag and payload), Lifecycle (one connect() at a time, with        *)
(* automatic reconnection), Routing (frames of every kind, before and     *)
(* after disconnect()) and Heartbeat (the lifecycle with the ticks of the  *)
(* heartbeat).                                                             *)
(***************************************************************************)
EXTENDS Integers, Sequences, FiniteSets, Bags, TLC

\* ---- bounds ----
MaxSockets == 2        \* transports in existence at a time
MaxCalls == 1          \* connect() calls awaiting the resolver at a time
MaxTimers == 2         \* reconnect timers pending at a time
MaxListeners == 1      \* subscriptions per event name
MaxAttempts == 2       \* value of reconnectAttempts
MaxSubscriptions == 2  \* entries of the emitter per event name (registry)

\* ---- program constants ----
DefaultMaxReconnectAttempts == 10
DefaultReconnectInterval == 1000
DefaultMaxReconnectInterval == 30000
DefaultHeartbeatInterval == 30000

\* enum ConnectionState
DISCONNECTED == "disconnected"
CONNECTING == "connecting"
CONNECTED == "connected"
RECONNECTING == "reconnecting"
ERROR == "error"
ConnectionState == {DISCONNECTED, CONNECTING, CONNECTED, RECONNECTING, ERROR}

\* enum ErrorType
CONNECTION == "connection"
WEBSOCKET == "websocket"
VALIDATION == "validation"

\* the configurations the model is checked for (ConnectionOptions): the cap
\* of 1 attempt with the other defaults, and the ones that differ from it in
\* one option
AutoReconnectValues == BOOLEAN
MaxReconnectAttemptsValues == {0, 1}
HeartbeatIntervalValues == {0, DefaultHeartbeatInterval}

Varied(o) ==
  (IF o.autoReconnect THEN 0 ELSE 1)
  + (IF o.maxReconnectAttempts = 0 THEN 1 ELSE 0)
  + (IF o.heartbeatInterval = 0 THEN 1 ELSE 0)

OptionValues ==
  {o \in [autoReconnect : AutoReconnectValues,
          maxReconnectAttempts : MaxReconnectAttemptsValues,
          reconnectInterval : {DefaultReconnectInterval},
          maxReconnectInterval : {DefaultMaxReconnectInterval},
          heartbeatInterval : HeartbeatIntervalValues,
          plainEmote : {FALSE}] : Varied(o) <= 1}

\* the configurations of the frame handling: the defaults of the connection
\* without reconnection, plainEmote off and on
FrameOptionValues ==
  [autoReconnect : {FALSE},
   maxReconnectAttempts : {1},
   reconnectInterval : {DefaultReconnectInterval},
   maxReconnectInterval : {DefaultMaxReconnectInterval},
   heartbeatInterval : {DefaultHeartbeatInterval},
   plainEmote : BOOLEAN]

\* the types parseMessage gives the frames of the chat (the event names of
\* the frames) and the ones it gives the frames of the protocol
AppTypes ==
  {"ChatMessage", "Subscription", "GiftedSubscriptions", "StreamHost",
   "MessageDeleted", "UserBanned", "UserUnbanned", "PinnedMessageCreated",
   "PinnedMessageDeleted", "PollUpdate", "PollDelete"}

PusherTypes ==
  {"PusherConnectionEstablished", "PusherSubscriptionSucceeded", "PusherPong",
   "PusherPing", "PusherError"}

\* event names of the emitter, the ones a caller subscribes to in this
\* model, and the callbacks
Events == {"ready", "disconnect", "error"} \cup AppTypes
SubEvents == {"error"}
Fns == {1}

VARIABLES
  options,            \* mergedOptions: the connection options and plainEmote
  socket,             \* the transport `socket` refers to, or NullSocket
  orphans,            \* the transports created that `socket` no longer refers to
  pending,            \* the connect() calls awaiting fetch or json
  channelInfo,        \* "null" or "info"
  connectionState,
  reconnectAttempts,
  reconnectTimer,     \* TRUE iff the handle of setTimeout is non-null
  timers,             \* number of pending timers of scheduleReconnect
  heartbeatTimer,     \* TRUE iff the handle of setInterval is non-null
  isDisconnected,
  listeners,          \* Map<string, Set<Function>>
  onceListeners,      \* Map<string, Set<Function>>
  emitter,            \* the EventEmitter's array of listeners per event
  crashed,            \* an exception escaped a handler
  out,                \* the calls the last step made, in order
  frame               \* the text the last step's message handler received

vars == <<options, socket, orphans, pending, channelInfo, connectionState,
          reconnectAttempts, reconnectTimer, timers, heartbeatTimer,
          isDisconnected, listeners, onceListeners, emitter, crashed, out,
          frame>>

\* a transport: its readyState, whether the client's handlers are attached,
\* and the promise its handlers' resolve/reject belong to: pending and made
\* by "user" or "timer", "settled", or "catch" (rejected, and the catch block
\* of the timer callback that awaits it has not run yet)
Transport(readyState, hasListeners, promise) ==
  [readyState |-> readyState, hasListeners |-> hasListeners, promise |-> promise]

NullSocket == Transport("NULL", FALSE, "none")

\* a connect() call awaiting the resolver
Call(pc, origin) == [pc |-> pc, origin |-> origin]

\* one entry of `out`
Cb(cb, arg, n) == [cb |-> cb, arg |-> arg, n |-> n]

\* no text: the undefined a missing `data` of a frame gives, and the value
\* of `frame` after a step that is not a message
NoText == [json |-> "undefined"]

\* the closure's variables as one record. Local to a step: `promise` (the
\* promise of the connect() call the running handler belongs to), `thrown`
\* (an exception in flight) and `overflow` (a bound of the model exceeded)
Cur ==
  [socket |-> socket, orphans |-> orphans, pending |-> pending,
   channelInfo |-> channelInfo, connectionState |-> connectionState,
   reconnectAttempts |-> reconnectAttempts,
   reconnectTimer |-> reconnectTimer, timers |-> timers,
   heartbeatTimer |-> heartbeatTimer, isDisconnected |-> isDisconnected,
   listeners |-> listeners, onceListeners |-> onceListeners,
   emitter |-> emitter, out |-> <<>>, frame |-> NoText, promise |-> "none",
   thrown |-> FALSE, overflow |-> FALSE]

Min(a, b) == IF a <= b THEN a ELSE b

RECURSIVE Pow2(_)
Pow2(n) == IF n = 0 THEN 1 ELSE 2 * Pow2(n - 1)

\* ---- the promise of a connect() call ----

\* resolve() of the promise of the running handler; a no-op on a settled
\* promise. Nothing follows `await connect()` in the timer callback.
resolve(s) ==
  IF s.promise \notin {"user", "timer"} THEN s
  ELSE [s EXCEPT !.out = Append(@, Cb("resolve", s.promise, 0)),
                 !.promise = "settled"]

\* reject(kickError); a no-op on a settled promise. The rejection of a call
\* made by the reconnect timer is followed by the timer callback's catch
\* block (ReconnectCatch).
reject(s, type) ==
  IF s.promise \notin {"user", "timer"} THEN s
  ELSE [s EXCEPT !.out = Append(@, Cb("reject", type, 0)),
                 !.promise = IF s.promise = "timer" THEN "catch" ELSE "settled"]

\* ---- helpers of createClient ----

createError(type) == [type |-> type]

\* mergedOptions.onError / onConnectionStateChange are configured; they
\* observe and return
onError == TRUE
onConnectionStateChange == TRUE

handleError(s, error) ==
  IF onError THEN [s EXCEPT !.out = Append(@, Cb("onError", error.type, 0))]
  ELSE s

\* a setConnectionState without the comparison with the current state
setConnectionState_Always(s, newState) ==
  [s EXCEPT !.connectionState = newState,
            !.out = Append(@, Cb("onConnectionStateChange", newState, 0))]

setConnectionState(s, newState) ==
  IF s.connectionState # newState
    THEN LET s1 == [s EXCEPT !.connectionState = newState]
         IN IF onConnectionStateChange
              THEN [s1 EXCEPT !.out = Append(@, Cb("onConnectionStateChange", newState, 0))]
              ELSE s1
    ELSE s

\* ---- EventEmitter (node:events) as the client uses it ----

\* an entry of the emitter's listener array: the function registered with
\* emitter.on, or the wrapper registered with emitter.once
Entry(fn, once) == [fn |-> fn, once |-> once]

\* seq without its element at index i
RemoveAt(seq, i) == SubSeq(seq, 1, i - 1) \o SubSeq(seq, i + 1, Len(seq))

\* emitter.removeListener(event, listener): removes the most recently added
\* entry that is `listener` itself; the entry of client.once is a wrapper
\* around wrappedListener and never equals it
emitterRemoveListener(em, event, fn) ==
  LET idx == {i \in 1..Len(em[event]) : em[event][i] = Entry(fn, FALSE)}
  IN IF idx = {} THEN em
     ELSE [em EXCEPT ![event] = RemoveAt(@, CHOOSE i \in idx : \A j \in idx : j <= i)]

\* a once wrapper that does not remove itself
emitterRemoveOnce_Keeps(em, event, fn) == em

\* the once wrapper of node removes itself (the first entry equal to it that
\* is still registered) before it calls the wrapped function
emitterRemoveOnce(em, event, fn) ==
  LET idx == {i \in 1..Len(em[event]) : em[event][i] = Entry(fn, TRUE)}
  IN IF idx = {} THEN em
     ELSE [em EXCEPT ![event] = RemoveAt(@, CHOOSE i \in idx : \A j \in idx : i <= j)]

addListener(s, event, fn, once) ==
  IF once
    THEN [s EXCEPT !.onceListeners[event] = @ \cup {fn},
                   !.emitter[event] = Append(@, Entry(fn, TRUE))]
    ELSE [s EXCEPT !.listeners[event] = @ \cup {fn},
                   !.emitter[event] = Append(@, Entry(fn, FALSE))]

removeListener(s, event, fn) ==
  [s EXCEPT !.listeners[event] = @ \ {fn},
            !.onceListeners[event] = @ \ {fn},
            !.emitter = emitterRemoveListener(@, event, fn)]

\* an absent optional argument
Undefined == "undefined"

\* `if (x)` of the source for a string: absent and empty count as false
Truthy(x) == x \notin {Undefined, ""}

\* removeAllListeners that ignores its argument
removeAllListeners_IgnoresEvent(s, event) ==
  [s EXCEPT !.listeners = [e \in Events |-> {}],
            !.onceListeners = [e \in Events |-> {}],
            !.emitter = [e \in Events |-> <<>>]]

removeAllListeners(s, event) ==
  IF Truthy(event)
    THEN [s EXCEPT !.listeners[event] = {},
                   !.onceListeners[event] = {},
                   !.emitter[event] = <<>>]
    ELSE [s EXCEPT !.listeners = [e \in Events |-> {}],
                   !.onceListeners = [e \in Events |-> {}],
                   !.emitter = [e \in Events |-> <<>>]]

\* ---- heartbeat ----

startHeartbeat(s) ==
  IF options.heartbeatInterval = 0 \/ s.heartbeatTimer THEN s
  ELSE [s EXCEPT !.heartbeatTimer = TRUE]

stopHeartbeat(s) ==
  IF s.heartbeatTimer THEN [s EXCEPT !.heartbeatTimer = FALSE] ELSE s

\* the callback of setInterval in startHeartbeat: socket.ping() if the
\* transport `socket` refers to at the tick is open
heartbeat(s) ==
  IF s.socket.readyState = "OPEN"
    THEN [s EXCEPT !.out = Append(@, Cb("ping", "socket", 0))]
    ELSE s

One(x) == SetToBag({x})

\* ---- disconnect ----

disconnect(s) ==
  LET s1 == [s EXCEPT !.isDisconnected = TRUE]
      s2 == setConnectionState(s1, DISCONNECTED)
      s3 == IF s2.reconnectTimer
              THEN [s2 EXCEPT !.timers = @ - 1, !.reconnectTimer = FALSE]
              ELSE s2
      s4 == stopHeartbeat(s3)
      s5 == IF s4.socket # NullSocket
              THEN [s4 EXCEPT !.orphans = @ (+) One(
                                 [s4.socket EXCEPT
                                    !.hasListeners = FALSE,
                                    !.readyState = IF @ = "OPEN" THEN "CLOSING" ELSE @]),
                              !.socket = NullSocket]
              ELSE s4
      s6 == removeAllListeners(s5, Undefined)
  IN [s6 EXCEPT !.channelInfo = "null", !.reconnectAttempts = 0]


\* ---- the callbacks of the caller ----

\* what a callback does when it is invoked, by callback: it returns, it
\* throws, it calls client.disconnect() (examples: ChatMessage handler), it
\* subscribes itself again with client.once, it calls client.off for
\* callback 1
Behaviour(fn) ==
  CASE fn = 1 -> "return"
    [] fn = 2 -> "throw"
    [] fn = 3 -> "disconnect"
    [] fn = 4 -> "once"
    [] fn = 5 -> "off"

\* the body of the callback fn, invoked for event
call(s, event, fn) ==
  LET s1 == [s EXCEPT !.out = Append(@, Cb("listener", event, fn))]
  IN CASE Behaviour(fn) = "return" -> s1
       [] Behaviour(fn) = "throw" -> [s1 EXCEPT !.thrown = TRUE]
       [] Behaviour(fn) = "disconnect" -> disconnect(s1)
       [] Behaviour(fn) = "once" ->
            IF Len(s1.emitter[event]) >= MaxSubscriptions
              THEN [s1 EXCEPT !.overflow = TRUE]
              ELSE addListener(s1, event, fn, TRUE)
       [] Behaviour(fn) = "off" -> removeListener(s1, event, 1)

\* the call of one entry of the snapshot: the wrapper of emitter.once removes
\* itself, then wrappedListener calls removeListener and the callback; the
\* entry of emitter.on is the callback
invoke(s, event, entry) ==
  LET s1 == IF entry.once
              THEN removeListener([s EXCEPT !.emitter = emitterRemoveOnce(@, event, entry.fn)],
                                  event, entry.fn)
              ELSE s
  IN call(s1, event, entry.fn)

RECURSIVE dispatch(_, _, _)
dispatch(s, event, snapshot) ==
  IF snapshot = <<>> \/ s.thrown THEN s
  ELSE dispatch(invoke(s, event, Head(snapshot)), event, Tail(snapshot))

\* emitter.emit(event, ...): an `error` event nobody listens to is thrown;
\* otherwise the listeners registered at the start are called in order
emit(s, event) ==
  IF event = "error" /\ s.emitter[event] = <<>>
    THEN [s EXCEPT !.thrown = TRUE]
    ELSE dispatch([s EXCEPT !.out = Append(@, Cb("emit", event, Len(s.emitter[event])))],
                  event, s.emitter[event])

\* ---- reconnection ----

\* `x || d` of the source: 0 counts as absent
OrDefault(x, d) == IF x # 0 THEN x ELSE d

scheduleReconnect(s) ==
  IF \/ ~options.autoReconnect
     \/ s.reconnectAttempts >= OrDefault(options.maxReconnectAttempts, DefaultMaxReconnectAttempts)
     \/ s.isDisconnected
    THEN s
    ELSE LET baseInterval == OrDefault(options.reconnectInterval, DefaultReconnectInterval)
             maxInterval == OrDefault(options.maxReconnectInterval, DefaultMaxReconnectInterval)
             exponentialDelay == Min(baseInterval * Pow2(s.reconnectAttempts), maxInterval)
         IN IF s.timers >= MaxTimers THEN [s EXCEPT !.overflow = TRUE]
            ELSE [s EXCEPT !.timers = @ + 1,
                           !.reconnectTimer = TRUE,
                           !.out = Append(@, Cb("setTimeout", "reconnect", exponentialDelay))]

\* ---- connect ----

\* connect without the check for a transport that is already open
connect_NoOpenCheck(s, origin) ==
  IF BagCardinality(s.pending) >= MaxCalls THEN [s EXCEPT !.overflow = TRUE]
  ELSE [setConnectionState(s, CONNECTING) EXCEPT
          !.pending = @ (+) One(Call("fetch", origin))]

\* new Promise(async (resolve, reject) => ...) up to its first await
connect(s, origin) ==
  IF s.socket # NullSocket /\ s.socket.readyState = "OPEN"
    THEN resolve([s EXCEPT !.promise = origin])
    ELSE IF BagCardinality(s.pending) >= MaxCalls THEN [s EXCEPT !.overflow = TRUE]
         ELSE [setConnectionState(s, CONNECTING) EXCEPT
                 !.pending = @ (+) One(Call("fetch", origin))]

\* the catch block of connect
connectCatch(s) ==
  LET s1 == setConnectionState(s, ERROR)
      s2 == handleError(s1, createError(CONNECTION))
  IN reject(s2, CONNECTION)

\* number of transports in existence
Transports(s) ==
  BagCardinality(s.orphans) + (IF s.socket # NullSocket THEN 1 ELSE 0)

\* channelInfo = {...}; socket = createWebSocket(...); socket.on(...): the
\* transport `socket` referred to keeps its handlers
connectCreate(s) ==
  IF Transports(s) >= MaxSockets THEN [s EXCEPT !.overflow = TRUE]
  ELSE [s EXCEPT !.channelInfo = "info",
                 !.orphans = IF s.socket # NullSocket THEN @ (+) One(s.socket) ELSE @,
                 !.socket = Transport("CONNECTING", TRUE, s.promise)]

\* socket.on("open", ...)
onOpen(s) ==
  IF s.isDisconnected THEN s
  ELSE LET s1 == setConnectionState(s, CONNECTED)
           s2 == [s1 EXCEPT !.reconnectAttempts = 0]
           s3 == startHeartbeat(s2)
           s4 == emit(s3, "ready")
       IN IF s4.thrown THEN s4 ELSE resolve(s4)

\* the close handler without the check of isDisconnected
onClose_NoDisconnectedCheck(s) ==
  LET s1 == stopHeartbeat(s)
      s2 == setConnectionState(s1, DISCONNECTED)
      s3 == emit(s2, "disconnect")
  IN IF s3.thrown THEN s3 ELSE scheduleReconnect(s3)

\* socket.on("close", ...)
onClose(s) ==
  LET s1 == stopHeartbeat(s)
  IN IF ~s1.isDisconnected
       THEN LET s2 == setConnectionState(s1, DISCONNECTED)
                s3 == emit(s2, "disconnect")
            IN IF s3.thrown THEN s3 ELSE scheduleReconnect(s3)
       ELSE s1

\* socket.on("error", ...)
onSocketError(s) ==
  LET s1 == stopHeartbeat(s)
      s2 == setConnectionState(s1, ERROR)
      s3 == handleError(s2, createError(WEBSOCKET))
      s4 == emit(s3, "error")
  IN IF s4.thrown THEN s4 ELSE reject(s4, WEBSOCKET)

\* ---- frames ----

\* A text is named by what JSON.parse makes of it: it is not JSON, or it is
\* the JSON of null, of a value without properties of interest (a number, a
\* string, an array), of an envelope with an `event` and a `data` (either
\* may be absent), or of a payload. A payload is named by the event type
\* whose shape it has ("other": the shape of none, such as {}).
NotJSON == [json |-> "invalid"]
NullText == [json |-> "null"]
ScalarText == [json |-> "scalar"]
EnvelopeText(event, data) == [json |-> "envelope", event |-> event, data |-> data]
PayloadText(shape) == [json |-> "payload", shape |-> shape]

\* the switch of parseMessage: the type of each event tag
TagType ==
  [t \in {"App\\Events\\ChatMessageEvent", "App\\Events\\SubscriptionEvent",
          "App\\Events\\GiftedSubscriptionsEvent", "App\\Events\\StreamHostEvent",
          "App\\Events\\MessageDeletedEvent", "App\\Events\\UserBannedEvent",
          "App\\Events\\UserUnbannedEvent", "App\\Events\\PinnedMessageCreatedEvent",
          "App\\Events\\PinnedMessageDeletedEvent", "App\\Events\\PollUpdateEvent",
          "App\\Events\\PollDeleteEvent", "pusher:connection_established",
          "pusher_internal:subscription_succeeded", "pusher:pong", "pusher:ping",
          "pusher:error"} |->
     CASE t = "App\\Events\\ChatMessageEvent" -> "ChatMessage"
       [] t = "App\\Events\\SubscriptionEvent" -> "Subscription"
       [] t = "App\\Events\\GiftedSubscriptionsEvent" -> "GiftedSubscriptions"
       [] t = "App\\Events\\StreamHostEvent" -> "StreamHost"
       [] t = "App\\Events\\MessageDeletedEvent" -> "MessageDeleted"
       [] t = "App\\Events\\UserBannedEvent" -> "UserBanned"
       [] t = "App\\Events\\UserUnbannedEvent" -> "UserUnbanned"
       [] t = "App\\Events\\PinnedMessageCreatedEvent" -> "PinnedMessageCreated"
       [] t = "App\\Events\\PinnedMessageDeletedEvent" -> "PinnedMessageDeleted"
       [] t = "App\\Events\\PollUpdateEvent" -> "PollUpdate"
       [] t = "App\\Events\\PollDeleteEvent" -> "PollDelete"
       [] t = "pusher:connection_established" -> "PusherConnectionEstablished"
       [] t = "pusher_internal:subscription_succeeded" -> "PusherSubscriptionSucceeded"
       [] t = "pusher:pong" -> "PusherPong"
       [] t = "pusher:ping" -> "PusherPing"
       [] t = "pusher:error" -> "PusherError"]

\* the frame that is dispatched to the callbacks of ChatMessage
ChatFrame == EnvelopeText("App\\Events\\ChatMessageEvent", PayloadText("ChatMessage"))

\* the outcome of an expression: a value, or an exception
Returns(value) == [thrown |-> FALSE, value |-> value]
Throws == [thrown |-> TRUE, value |-> Undefined]

\* parseJSON(json): JSON.parse; a text that is not JSON (undefined
\* included) throws
parseJSON(text) ==
  IF text = NoText \/ text = NotJSON THEN Throws
  ELSE CASE text.json = "null" -> Returns([is |-> "null"])
         [] text.json = "scalar" -> Returns([is |-> "scalar"])
         [] text.json = "envelope" ->
              Returns([is |-> "object", event |-> text.event, data |-> text.data])
         [] text.json = "payload" -> Returns([is |-> "object", shape |-> text.shape])

\* the null parseMessage returns
Null == [type |-> "null"]

\* a parseMessage whose case for the deleted pin returns the type of the
\* case it was copied from
parseMessageTry_CopiedCase(message) ==
  LET messageEventJSON == parseJSON(message)
  IN IF messageEventJSON.thrown \/ messageEventJSON.value.is = "null" THEN Throws
     ELSE LET event == IF messageEventJSON.value.is = "object"
                         THEN messageEventJSON.value.event ELSE Undefined
          IN IF event \in DOMAIN TagType
               THEN LET data == parseJSON(messageEventJSON.value.data)
                    IN IF data.thrown THEN Throws
                       ELSE Returns([type |-> IF TagType[event] = "PinnedMessageDeleted"
                                                THEN "MessageDeleted" ELSE TagType[event],
                                     data |-> data.value])
               ELSE Returns(Null)

\* the body of the try block of parseMessage: reading `event` of null
\* throws, of another value without the property gives undefined
parseMessageTry(message) ==
  LET messageEventJSON == parseJSON(message)
  IN IF messageEventJSON.thrown \/ messageEventJSON.value.is = "null" THEN Throws
     ELSE LET event == IF messageEventJSON.value.is = "object"
                         THEN messageEventJSON.value.event ELSE Undefined
          IN IF event \in DOMAIN TagType
               THEN LET data == parseJSON(messageEventJSON.value.data)
                    IN IF data.thrown THEN Throws
                       ELSE Returns([type |-> TagType[event], data |-> data.value])
               ELSE Returns(Null)

\* parseMessage(message): the catch block returns null
parseMessage(message) ==
  LET result == parseMessageTry(message)
  IN IF result.thrown THEN Returns(Null) ELSE result

\* messageData.content is a string
HasContent(data) == data.is = "object" /\ data.shape = "ChatMessage"

\* the call of parseMessage as `out` records it: the type of the result
Parsed(parsedMessage) ==
  Cb("parseMessage", IF parsedMessage.thrown THEN "throws" ELSE parsedMessage.value.type, 0)

\* the switch of the message handler on a result that is not null
route(s, parsedMessage) ==
  CASE parsedMessage.type = "ChatMessage" ->
         IF options.plainEmote /\ ~HasContent(parsedMessage.data)
           THEN [s EXCEPT !.thrown = TRUE]
           ELSE emit(s, parsedMessage.type)
    [] parsedMessage.type \in PusherTypes -> s
    [] OTHER -> emit(s, parsedMessage.type)

\* a message handler without the check of isDisconnected
onMessage_NoDisconnectedCheck(s, data) ==
  LET parsedMessage == parseMessage(data)
      s0 == [s EXCEPT !.frame = data, !.out = Append(@, Parsed(parsedMessage))]
      s1 == CASE parsedMessage.thrown -> [s0 EXCEPT !.thrown = TRUE]
              [] ~parsedMessage.thrown /\ parsedMessage.value = Null -> s0
              [] ~parsedMessage.thrown /\ parsedMessage.value # Null ->
                   route(s0, parsedMessage.value)
  IN IF s1.thrown
       THEN handleError([s1 EXCEPT !.thrown = FALSE], createError(WEBSOCKET))
       ELSE s1

\* socket.on("message", ...): what the try block throws (parseMessage, the
\* rewriting of the content, a subscriber) is caught and reported as an
\* error of kind Websocket. The rewriting changes the payload only.
onMessage(s, data) ==
  IF s.isDisconnected THEN [s EXCEPT !.frame = data]
  ELSE LET parsedMessage == parseMessage(data)
           s0 == [s EXCEPT !.frame = data, !.out = Append(@, Parsed(parsedMessage))]
           s1 == CASE parsedMessage.thrown -> [s0 EXCEPT !.thrown = TRUE]
                   [] ~parsedMessage.thrown /\ parsedMessage.value = Null -> s0
                   [] ~parsedMessage.thrown /\ parsedMessage.value # Null ->
                        route(s0, parsedMessage.value)
       IN IF s1.thrown
            THEN handleError([s1 EXCEPT !.thrown = FALSE], createError(WEBSOCKET))
            ELSE s1

\* ---- the step of the event loop ----

\* a closed transport that nothing refers to any more is collected
Collectable(tr) == tr.readyState = "CLOSED" /\ tr.promise # "catch"

Collect(s) ==
  [s EXCEPT !.orphans = [tr \in {x \in DOMAIN s.orphans : ~Collectable(x)} |-> s.orphans[tr]]]

\* the state after a handler that took the closure to s; an exception that
\* escapes the handler is uncaught and ends the process
Commit(s0) ==
  LET s == Collect(s0)
  IN /\ ~s.overflow
     /\ socket' = s.socket
     /\ orphans' = s.orphans
     /\ pending' = s.pending
     /\ channelInfo' = s.channelInfo
     /\ connectionState' = s.connectionState
     /\ reconnectAttempts' = s.reconnectAttempts
     /\ reconnectTimer' = s.reconnectTimer
     /\ timers' = s.timers
     /\ heartbeatTimer' = s.heartbeatTimer
     /\ isDisconnected' = s.isDisconnected
     /\ listeners' = s.listeners
     /\ onceListeners' = s.onceListeners
     /\ emitter' = s.emitter
     /\ crashed' = s.thrown
     /\ out' = s.out
     /\ frame' = s.frame
     /\ UNCHANGED options

\* the transport tr is the one `socket` refers to (cur), or one of the others
IsTransport(tr, cur) ==
  IF cur THEN tr # NullSocket /\ socket = tr ELSE BagIn(tr, orphans)

\* the transport tr of s becomes tr2
Replace(s, tr, cur, tr2) ==
  IF cur THEN [s EXCEPT !.socket = tr2]
  ELSE [s EXCEPT !.orphans = (@ (-) One(tr)) (+) One(tr2)]

\* the handler the client attached to a transport for an event
Handler(event, s) ==
  CASE event = "open" -> onOpen(s)
    [] event = "close" -> onClose(s)
    [] event = "error" -> onSocketError(s)

\* the event of transport tr that takes it to readyState rs: its handler
\* runs if the client's handlers are attached, with the promise its closure
\* captured
\* (the callbacks subscribed to the lifecycle events return: the transport
\* is still the client's when the handler ends)
TransportEvent(tr, cur, rs, event) ==
  LET tr1 == [tr EXCEPT !.readyState = rs]
      s0 == [Replace(Cur, tr, cur, tr1) EXCEPT !.promise = tr.promise]
      s1 == IF tr.hasListeners THEN Handler(event, s0) ELSE s0
  IN Commit(Replace(s1, tr1, cur, [tr1 EXCEPT !.promise = s1.promise]))

\* the catch block of a reconnect timer's callback is waiting to run: it runs
\* before any other task
MicrotaskPending ==
  \/ \E c \in BagToSet(pending) : c.pc = "catch"
  \/ socket.promise = "catch"
  \/ \E tr \in BagToSet(orphans) : tr.promise = "catch"

Idle == ~crashed /\ ~MicrotaskPending

\* the closure's variables after createClient
InitClosure ==
  /\ socket = NullSocket
  /\ orphans = EmptyBag
  /\ pending = EmptyBag
  /\ channelInfo = "null"
  /\ connectionState = DISCONNECTED
  /\ reconnectAttempts = 0
  /\ reconnectTimer = FALSE
  /\ timers = 0
  /\ heartbeatTimer = FALSE
  /\ isDisconnected = FALSE
  /\ listeners = [e \in Events |-> {}]
  /\ onceListeners = [e \in Events |-> {}]
  /\ emitter = [e \in Events |-> <<>>]
  /\ crashed = FALSE
  /\ out = <<>>
  /\ frame = NoText

Init ==
  /\ options \in OptionValues
  /\ InitClosure

\* client.connect()
Connect ==
  /\ Idle
  /\ Commit(connect(Cur, "user"))

\* the call c leaves the resolver and runs the rest of connect; a rejected
\* call of the timer callback waits for the callback's catch block
Resume(c, ok) ==
  LET s0 == [Cur EXCEPT !.pending = @ (-) One(c), !.promise = c.origin]
      s1 == IF ok THEN connectCreate(s0) ELSE connectCatch(s0)
  IN Commit(IF s1.promise = "catch"
              THEN [s1 EXCEPT !.pending = @ (+) One(Call("catch", c.origin))]
              ELSE s1)

\* await fetch(...) and await channelData.json() return a chatroom id. The
\* client's variables are neither read nor written between the two awaits,
\* which are one step here.
ResolverReturns(c) ==
  /\ Idle
  /\ BagIn(c, pending) /\ c.pc = "fetch"
  /\ Resume(c, TRUE)

\* fetch throws or returns a response that is not ok, or json() throws or
\* returns no chatroom id
ResolverFails(c) ==
  /\ Idle
  /\ BagIn(c, pending) /\ c.pc = "fetch"
  /\ Resume(c, FALSE)

\* the transport reports open
SocketOpen(tr, cur) ==
  /\ Idle
  /\ IsTransport(tr, cur)
  /\ tr.readyState = "CONNECTING"
  /\ TransportEvent(tr, cur, "OPEN", "open")

\* an `error` event of a transport without listeners
Throw(s) == [s EXCEPT !.thrown = TRUE]

\* the transport reports an error; ws closes a transport that failed
SocketError(tr, cur) ==
  /\ Idle
  /\ IsTransport(tr, cur)
  /\ tr.readyState \in {"CONNECTING", "OPEN"}
  /\ IF tr.hasListeners
       THEN TransportEvent(tr, cur, "CLOSING", "error")
       ELSE Commit(Throw(Replace(Cur, tr, cur, [tr EXCEPT !.readyState = "CLOSING"])))

\* the transport reports close. ws reports the close of a failed handshake
\* right after the error, before the rejected promise's continuation runs.
SocketClose(tr, cur) ==
  /\ ~crashed
  /\ IsTransport(tr, cur)
  /\ tr.readyState \in {"OPEN", "CLOSING"}
  /\ MicrotaskPending => (tr.readyState = "CLOSING" /\ tr.promise = "catch")
  /\ TransportEvent(tr, cur, "CLOSED", "close")

\* the callback of setTimeout in scheduleReconnect, up to its await
TimerFire ==
  /\ Idle
  /\ timers > 0
  /\ Commit(connect([Cur EXCEPT !.timers = @ - 1, !.reconnectTimer = FALSE], "timer"))

\* the catch block of the callback of setTimeout in scheduleReconnect
reconnectCatch(s) ==
  IF s.reconnectAttempts >= MaxAttempts THEN [s EXCEPT !.overflow = TRUE]
  ELSE scheduleReconnect([s EXCEPT !.reconnectAttempts = @ + 1])

\* ... after a rejection by the catch block of connect
ReconnectCatchCall(c) ==
  /\ ~crashed
  /\ BagIn(c, pending) /\ c.pc = "catch"
  /\ Commit(reconnectCatch([Cur EXCEPT !.pending = @ (-) One(c)]))

\* ... after a rejection by the error handler of the transport tr
ReconnectCatchTransport(tr, cur) ==
  /\ ~crashed
  /\ IsTransport(tr, cur)
  /\ tr.promise = "catch"
  /\ Commit(reconnectCatch(Replace(Cur, tr, cur, [tr EXCEPT !.promise = "settled"])))

\* client.disconnect()
Disconnect ==
  /\ Idle
  /\ Commit(disconnect(Cur))

\* client.on(event, fn)
On(event, fn) ==
  /\ Idle
  /\ Len(emitter[event]) < MaxListeners
  /\ Commit(addListener(Cur, event, fn, FALSE))

Calls == {Call(pc, origin) : pc \in {"fetch", "catch"}, origin \in {"user", "timer"}}
TransportValues ==
  {Transport(rs, hl, p) : rs \in {"CONNECTING", "OPEN", "CLOSING", "CLOSED"},
                          hl \in BOOLEAN,
                          p \in {"user", "timer", "settled", "catch"}}

Next ==
  \/ Connect
  \/ \E c \in Calls : ResolverReturns(c)
  \/ \E c \in Calls : ResolverFails(c)
  \/ \E tr \in TransportValues, cur \in BOOLEAN : SocketOpen(tr, cur)
  \/ \E tr \in TransportValues, cur \in BOOLEAN : SocketError(tr, cur)
  \/ \E tr \in TransportValues, cur \in BOOLEAN : SocketClose(tr, cur)
  \/ TimerFire
  \/ \E c \in Calls : ReconnectCatchCall(c)
  \/ \E tr \in TransportValues, cur \in BOOLEAN : ReconnectCatchTransport(tr, cur)
  \/ Disconnect
  \/ \E event \in SubEvents, fn \in Fns : On(event, fn)

Spec == Init /\ [][Next]_vars

\* ======================= properties =======================

AllTransports == BagToSet(orphans) \cup (IF socket # NullSocket THEN {socket} ELSE {})

Live(tr) == tr.readyState \in {"CONNECTING", "OPEN"}

\* number of transports that are connecting or open
LiveTransports ==
  (IF socket # NullSocket /\ Live(socket) THEN 1 ELSE 0)
  + BagCardinality([tr \in {x \in DOMAIN orphans : Live(x)} |-> orphans[tr]])

InOut(e) == \E i \in 1..Len(out) : out[i] = e

Invoked(cb) == \E i \in 1..Len(out) : out[i].cb = cb

\* C1: in every reachable state at most one transport created by the client
\* is connecting or open.
C1_AtMostOneLiveTransport == LiveTransports <= 1

\* C2: once disconnect() has been called, ConnectionState is Disconnected in
\* every later state.
C2_DisconnectedForever == isDisconnected => connectionState = DISCONNECTED

\* C3: after disconnect() has been called, no callback of a reconnect timer
\* runs connect().
C3_NoReconnectAfterDisconnect == [][~(isDisconnected /\ TimerFire)]_vars

\* C4: a step arms a reconnect timer only if auto-reconnect is enabled, the
\* attempt counter that scheduleReconnect reads is strictly below the
\* configured maxReconnectAttempts, and disconnect() has not been called.
C4_ArmedOnlyBelowConfiguredCap ==
  [][timers' > timers =>
       /\ options.autoReconnect
       /\ reconnectAttempts' < options.maxReconnectAttempts
       /\ ~isDisconnected']_vars

\* a pending promise of connect() that no handler can settle any more: the
\* handlers of its transport are removed, or its transport is closed
Unsettleable(tr) ==
  /\ tr.promise \in {"user", "timer"}
  /\ ~tr.hasListeners \/ tr.readyState = "CLOSED"

\* C5: every connect() call eventually settles: no state is reached in which
\* the promise of a call is pending and nothing can settle it any more.
C5_EveryConnectSettles == \A tr \in AllTransports : ~Unsettleable(tr)

\* the variables connect() must leave alone when the transport is open
ConnectFrame ==
  <<socket, orphans, pending, channelInfo, connectionState, reconnectAttempts,
    heartbeatTimer, isDisconnected, listeners, onceListeners, emitter, crashed>>

\* C6: a connect() call made while the current transport is open, by the
\* caller or by the callback of a reconnect timer, creates no transport,
\* starts no resolution, leaves state, channel identity, timers and the
\* attempt counter unchanged, and resolves.
C6_ConnectIdempotentWhenOpen ==
  [][(socket # NullSocket /\ socket.readyState = "OPEN") =>
       /\ Connect => /\ UNCHANGED ConnectFrame
                     /\ UNCHANGED <<timers, reconnectTimer>>
                     /\ out' = <<Cb("resolve", "user", 0)>>
       /\ TimerFire => /\ UNCHANGED ConnectFrame
                       /\ timers' = timers - 1
                       /\ out' = <<Cb("resolve", "timer", 0)>>]_vars

\* C6 witness: a connect() of the caller found the transport open and resolved
C6_Witness ==
  /\ out = <<Cb("resolve", "user", 0)>>
  /\ socket # NullSocket /\ socket.readyState = "OPEN"
  /\ connectionState = CONNECTED

\* C7: the close event of a transport whose handlers are attached, when
\* disconnect() has not been called: stops the heartbeat, makes the state
\* Disconnected, emits `disconnect` and, with auto-reconnect enabled and the
\* attempts below the cap, arms a reconnect timer; when disconnect() has been
\* called it invokes nothing, changes no state and arms no timer.
C7_CloseHandler ==
  [][\A tr \in AllTransports, cur \in BOOLEAN :
       (SocketClose(tr, cur) /\ tr.hasListeners) =>
          IF ~isDisconnected
            THEN /\ ~heartbeatTimer'
                 /\ connectionState' = DISCONNECTED
                 /\ InOut(Cb("emit", "disconnect", 0))'
                 /\ (options.autoReconnect
                       /\ reconnectAttempts < options.maxReconnectAttempts)
                      => (timers' = timers + 1 /\ reconnectTimer')
            ELSE /\ out' = <<>>
                 /\ UNCHANGED <<connectionState, timers, reconnectTimer,
                                reconnectAttempts, heartbeatTimer, channelInfo,
                                pending, emitter, isDisconnected>>]_vars

\* C7 witness: the close handler ran with disconnect() not called, emitted
\* `disconnect` and armed a reconnect timer
C7_Witness ==
  /\ InOut(Cb("emit", "disconnect", 0))
  /\ Invoked("setTimeout")
  /\ connectionState = DISCONNECTED /\ ~heartbeatTimer /\ reconnectTimer
  /\ ~isDisconnected

\* C8: the error event of a transport whose handlers are attached stops the
\* heartbeat, makes the state Error, invokes the error callback with an
\* error of kind Websocket, emits `error` and rejects the connect() result
\* that is in flight, whatever subscriptions are registered.
C8_ErrorHandler ==
  [][\A tr \in AllTransports, cur \in BOOLEAN :
       (SocketError(tr, cur) /\ tr.hasListeners) =>
          /\ ~heartbeatTimer'
          /\ connectionState' = ERROR
          /\ InOut(Cb("onError", WEBSOCKET, 0))'
          /\ Invoked("emit")'
          /\ tr.promise \in {"user", "timer"} => InOut(Cb("reject", WEBSOCKET, 0))']_vars

\* C9: the heartbeat timer is active if and only if ConnectionState is
\* Connected; stated for the configurations that enable the heartbeat (with
\* heartbeatInterval 0 startHeartbeat never starts the timer).
C9_HeartbeatIffConnected ==
  options.heartbeatInterval # 0 => (heartbeatTimer <=> connectionState = CONNECTED)

\* C10: getChannel() is non-null only if ConnectionState is Connected.
C10_ChannelOnlyWhenConnected == channelInfo # "null" => connectionState = CONNECTED

\* ---- reconnection scheduler ----

\* attempts of the scheduler that were rejected and that the catch block of
\* the timer callback has not counted yet
UncountedFailures ==
  BagCardinality([c \in {x \in DOMAIN pending : x.pc = "catch"} |-> pending[c]])
  + (IF socket.promise = "catch" THEN 1 ELSE 0)
  + BagCardinality([tr \in {x \in DOMAIN orphans : x.promise = "catch"} |-> orphans[tr]])

\* failed attempts of the scheduler since the last open
FailedAttempts == reconnectAttempts + UncountedFailures

\* the delay of the spec for the timer after n failed attempts
Delay(n) == Min(options.reconnectInterval * Pow2(n), options.maxReconnectInterval)

\* nothing is left that could change the state: no timer, no call awaiting
\* the resolver, no continuation, no transport that is not closed
NothingInFlight ==
  /\ timers = 0
  /\ pending = EmptyBag
  /\ ~MicrotaskPending
  /\ \A tr \in AllTransports : tr.readyState = "CLOSED"

\* C11: the attempt counter never exceeds the configured maxReconnectAttempts
\* (a configured cap of 0 is the subject of C4 and left out here).
C11_AttemptsWithinCap ==
  options.maxReconnectAttempts # 0 => reconnectAttempts <= options.maxReconnectAttempts

\* C12: every reconnect timer is armed with the delay
\* min(reconnectInterval * 2^n, maxReconnectInterval), n being the number of
\* attempts of the scheduler that failed since the last open.
C12_BackoffDelay ==
  [][\A i \in 1..Len(out') :
       out'[i].cb = "setTimeout" => out'[i].n = Delay(FailedAttempts')]_vars

\* C13: when the scheduler has given up (attempts at the cap, no timer
\* pending, nothing in flight), ConnectionState is Disconnected.
C13_GiveUpDisconnected ==
  (/\ ~crashed /\ ~isDisconnected
   /\ options.autoReconnect
   /\ options.maxReconnectAttempts # 0
   /\ reconnectAttempts >= options.maxReconnectAttempts
   /\ NothingInFlight)
  => connectionState = DISCONNECTED

\* ---- recovery from an unexpected close ----

\* no transport has opened yet: the caller's connect() calls are the only
\* ones made so far
EarlyPhase ==
  /\ timers = 0
  /\ \A c \in BagToSet(pending) : c.origin = "user"
  /\ \A tr \in AllTransports : tr.readyState = "CONNECTING" /\ tr.promise = "user"

\* client.connect() before any transport has opened
ConnectEarly ==
  /\ Idle
  /\ EarlyPhase
  /\ Transports(Cur) + BagCardinality(pending) < MaxSockets
  /\ Commit(connect(Cur, "user"))

\* the environment of C14: resolution succeeds, every transport opens,
\* transports may close; the caller acts only before the first open
NextRecovery ==
  \/ ConnectEarly
  \/ \E c \in Calls : ResolverReturns(c)
  \/ \E tr \in TransportValues, cur \in BOOLEAN : SocketOpen(tr, cur)
  \/ \E tr \in TransportValues, cur \in BOOLEAN : SocketClose(tr, cur)
  \/ TimerFire

\* timers fire, the resolver answers and connecting transports open
Recovery ==
  /\ Init
  /\ [][NextRecovery]_vars
  /\ WF_vars(TimerFire)
  /\ WF_vars(\E c \in Calls : ResolverReturns(c))
  /\ WF_vars(\E tr \in TransportValues, cur \in BOOLEAN : SocketOpen(tr, cur))

\* the close handler of an open transport just ran and armed a reconnect timer
ClosedUnexpectedly ==
  /\ connectionState = DISCONNECTED
  /\ InOut(Cb("emit", "disconnect", 0))
  /\ Invoked("setTimeout")

\* the open handler just ran: Connected, `ready` emitted
ReadyAgain ==
  /\ connectionState = CONNECTED
  /\ InOut(Cb("emit", "ready", 0))

\* C14: after an unexpected close that armed a reconnect timer, with
\* resolution succeeding, every transport opening and no caller action, the
\* client eventually is Connected again and emits `ready`.
C14_RecoversAfterClose == ClosedUnexpectedly ~> ReadyAgain

\* ---- the listener registry ----

\* the callbacks and the events of the registry specification
RegistryFns == 1..5
RegistryEvents == {"ChatMessage", "disconnect"}

\* the subscriptions a caller makes in it (event, callback, once): to the
\* event of a frame, callbacks of every behaviour, persistent and one-shot
\* (the callback that subscribes itself again is one-shot, the one that
\* unsubscribes another is persistent); to a lifecycle event, a persistent
\* callback that returns
RegistrySubs ==
  ({<<"ChatMessage", fn, once>> : fn \in RegistryFns, once \in BOOLEAN}
     \ {<<"ChatMessage", 4, FALSE>>, <<"ChatMessage", 5, TRUE>>})
  \cup {<<"disconnect", 1, FALSE>>}

\* the subscriptions of the specification of reconnects: callbacks that
\* return
ReconnectSubs ==
  {<<"disconnect", 1, FALSE>>, <<"disconnect", 1, TRUE>>, <<"ChatMessage", 1, FALSE>>}

\* the frames a transport delivers
RegistryFrames ==
  {ChatFrame, EnvelopeText("pusher:pong", PayloadText("other"))}

\* client.on(event, fn) / client.once(event, fn)
Subscribe(event, fn, once) ==
  /\ Idle
  /\ ~isDisconnected
  /\ Len(emitter[event]) < MaxSubscriptions
  /\ Commit(addListener(Cur, event, fn, once))

\* client.off(event, fn) / client.removeListener(event, fn)
Off(event, fn) ==
  /\ Idle
  /\ fn \in listeners[event] \cup onceListeners[event]
  /\ Commit(removeListener(Cur, event, fn))

\* client.removeAllListeners(event) / client.removeAllListeners(); `out`
\* records the call and the number of entries the event had
RemoveAll(event) ==
  /\ Idle
  /\ \E e \in Events : emitter[e] # <<>>
  /\ Commit([removeAllListeners(Cur, event) EXCEPT
               !.out = <<Cb("removeAllListeners", event,
                            IF event \in Events THEN Len(emitter[event]) ELSE 0)>>])

\* the first client.connect()
ConnectFirst ==
  /\ Idle
  /\ ~isDisconnected
  /\ socket = NullSocket /\ pending = EmptyBag
  /\ Commit(connect(Cur, "user"))

\* an open transport delivers a frame
Message(tr, cur, data) ==
  /\ Idle
  /\ IsTransport(tr, cur)
  /\ tr.readyState = "OPEN" /\ tr.hasListeners
  /\ Commit(onMessage(Cur, data))

\* Registry: one connection without reconnection, the whole registry API
InitRegistry ==
  /\ Init
  /\ ~options.autoReconnect

NextRegistry ==
  \/ ConnectFirst
  \/ \E c \in Calls : ResolverReturns(c)
  \/ \E tr \in TransportValues, cur \in BOOLEAN : SocketOpen(tr, cur)
  \/ \E tr \in TransportValues, cur \in BOOLEAN : SocketClose(tr, cur)
  \/ \E tr \in TransportValues, cur \in BOOLEAN, data \in RegistryFrames : Message(tr, cur, data)
  \/ \E sub \in RegistrySubs :
       /\ sub[1] = "disconnect" => Len(emitter[sub[1]]) < MaxListeners
       /\ Subscribe(sub[1], sub[2], sub[3])
  \/ \E event \in RegistryEvents, fn \in RegistryFns : Off(event, fn)
  \/ \E event \in RegistryEvents \cup {Undefined} : RemoveAll(event)
  \/ Disconnect

Registry == InitRegistry /\ [][NextRegistry]_vars

\* Reconnects: subscriptions made by a caller that connects once, closes
\* and automatic reconnections
InitReconnects ==
  /\ Init
  /\ options.autoReconnect
  /\ options.maxReconnectAttempts = 1
  /\ options.heartbeatInterval = DefaultHeartbeatInterval

NextReconnects ==
  \/ ConnectFirst
  \/ \E c \in Calls : ResolverReturns(c)
  \/ \E tr \in TransportValues, cur \in BOOLEAN : SocketOpen(tr, cur)
  \/ \E tr \in TransportValues, cur \in BOOLEAN : SocketClose(tr, cur)
  \/ TimerFire
  \/ \E tr \in TransportValues, cur \in BOOLEAN : Message(tr, cur, ChatFrame)
  \/ \E sub \in ReconnectSubs : Subscribe(sub[1], sub[2], sub[3])

Reconnects == InitReconnects /\ [][NextReconnects]_vars

\* the positions of the entries of callback fn in the emitter's array em
Entries(em, event, fn) == {i \in 1..Len(em[event]) : em[event][i].fn = fn}

\* the only subscription of fn to event is one-shot
OnlyOnce(event, fn) ==
  /\ Cardinality(Entries(emitter, event, fn)) = 1
  /\ \A i \in Entries(emitter, event, fn) : emitter[event][i].once

\* number of invocations of fn for event in the last step
Invocations(event, fn) ==
  Cardinality({i \in 1..Len(out) : out[i] = Cb("listener", event, fn)})

Tracked(event) == listeners[event] \cup onceListeners[event]

\* C16: after off(E, f) no dispatch of E invokes f: a step invokes for E only
\* callbacks that are subscribed to E (subscribed by on or once and not
\* removed by off since) when the step begins.
C16_NoInvocationAfterOff ==
  [][\A event \in RegistryEvents, fn \in RegistryFns :
       Invocations(event, fn)' > 0 => fn \in Tracked(event)]_vars

\* the callbacks of event, persistent and one-shot
Callbacks(event) == <<listeners[event], onceListeners[event], emitter[event]>>

\* C17: removeAllListeners() leaves no callback, persistent or one-shot, for
\* any event name; removeAllListeners(E) leaves no callback for E and leaves
\* the callbacks of every other event name unchanged.
C17_RemoveAllListeners ==
  [][\A event \in RegistryEvents \cup {Undefined} :
       RemoveAll(event) =>
         IF event = Undefined
           THEN \A e \in Events : Callbacks(e)' = <<{}, {}, <<>>>>
           ELSE /\ Callbacks(event)' = <<{}, {}, <<>>>>
                /\ \A e \in Events \ {event} : Callbacks(e)' = Callbacks(e)]_vars

\* C17 witness: removeAllListeners("ChatMessage") was called with two
\* callbacks subscribed to ChatMessage, and the callbacks of `disconnect` are
\* still subscribed
C17_Witness ==
  /\ out = <<Cb("removeAllListeners", "ChatMessage", 2)>>
  /\ Callbacks("ChatMessage") = <<{}, {}, <<>>>>
  /\ emitter["disconnect"] = <<Entry(1, FALSE)>>
  /\ Tracked("disconnect") = {1}

\* C18: when a chat frame is dispatched and a callback throws, every callback
\* subscribed after it is still invoked for that frame (stated for the
\* dispatches in which no earlier callback disconnects the client).
C18_ThrowDoesNotStopDelivery ==
  [][\A tr \in AllTransports, cur \in BOOLEAN :
       (Message(tr, cur, ChatFrame) /\ ~isDisconnected) =>
         \A i, j \in 1..Len(emitter["ChatMessage"]), fn \in RegistryFns :
           (/\ i < j
            /\ Behaviour(emitter["ChatMessage"][i].fn) = "throw"
            /\ \A k \in 1..(j - 1) :
                 Behaviour(emitter["ChatMessage"][k].fn) # "disconnect"
            /\ fn = emitter["ChatMessage"][j].fn)
           => Invocations("ChatMessage", fn)' > 0]_vars

\* C19: once a callback has called disconnect() from inside a dispatch, the
\* remaining callbacks of that dispatch are not invoked: no step invokes a
\* callback after the callback that disconnects.
C19_NoCallbackAfterDisconnect ==
  [][\A i, j \in 1..Len(out') :
       (/\ i < j
        /\ out'[i].cb = "listener"
        /\ Behaviour(out'[i].n) = "disconnect")
       => out'[j].cb # "listener"]_vars

\* the persistent subscriptions: the tracking map and the entries of
\* emitter.on
Persistent ==
  <<listeners, [e \in Events |-> SelectSeq(emitter[e], LAMBDA x : ~x.once)]>>

\* C20: transport close, reconnect scheduling, the reconnect timer's
\* connect() and the open of the new transport leave the persistent
\* subscriptions unchanged.
C20_SubscriptionsSurviveReconnect ==
  [][(\/ \E tr \in AllTransports, cur \in BOOLEAN : SocketClose(tr, cur)
      \/ \E tr \in AllTransports, cur \in BOOLEAN : SocketOpen(tr, cur)
      \/ \E c \in BagToSet(pending) : ResolverReturns(c)
      \/ TimerFire)
     => Persistent' = Persistent]_vars

\* ---- frames: the decoder and the routing ----

\* an event tag parseMessage has no case for
FutureTag == "App\\Events\\FutureEvent"

\* the texts a transport delivers: not JSON, JSON that is no envelope, and
\* envelopes of every tag of the switch, of a tag outside it and without
\* `event`, each with a payload of the shape of its type, with a payload of
\* another shape, with the JSON of null, with a `data` that is not JSON and
\* without `data`
FrameTags == DOMAIN TagType \cup {FutureTag, Undefined}
FramePayloads(tag) ==
  {NoText, NotJSON, NullText, PayloadText("other")}
  \cup (IF tag \in DOMAIN TagType THEN {PayloadText(TagType[tag])} ELSE {})
FrameValues ==
  {NotJSON, NullText, ScalarText}
  \cup UNION {{EnvelopeText(tag, data) : data \in FramePayloads(tag)} : tag \in FrameTags}

\* the subscriptions of the specification of frames: callbacks that return,
\* for chat messages and for another type of frame
FrameSubs == {<<"ChatMessage", 1, FALSE>>, <<"Subscription", 1, FALSE>>}

\* Frames: one connection, any frame, with and without plainEmote
InitFrames ==
  /\ options \in FrameOptionValues
  /\ InitClosure

NextFrames ==
  \/ ConnectFirst
  \/ \E c \in Calls : ResolverReturns(c)
  \/ \E tr \in TransportValues, cur \in BOOLEAN : SocketOpen(tr, cur)
  \/ \E tr \in TransportValues, cur \in BOOLEAN, data \in FrameValues : Message(tr, cur, data)
  \/ \E sub \in FrameSubs :
       /\ Len(emitter[sub[1]]) < MaxListeners
       /\ Subscribe(sub[1], sub[2], sub[3])
  \/ Disconnect

Frames == InitFrames /\ [][NextFrames]_vars

\* the types of the results of parseMessage in a sequence of calls
ParsedTypes(calls) ==
  {calls[i].arg : i \in {j \in 1..Len(calls) : calls[j].cb = "parseMessage"}}

\* the kind of each supported tag: the event name of the public event
\* surface for the frames of the chat, the housekeeping kind for the frames
\* of the protocol
KindTable ==
  {<<"App\\Events\\ChatMessageEvent", "ChatMessage">>,
   <<"App\\Events\\SubscriptionEvent", "Subscription">>,
   <<"App\\Events\\GiftedSubscriptionsEvent", "GiftedSubscriptions">>,
   <<"App\\Events\\StreamHostEvent", "StreamHost">>,
   <<"App\\Events\\MessageDeletedEvent", "MessageDeleted">>,
   <<"App\\Events\\UserBannedEvent", "UserBanned">>,
   <<"App\\Events\\UserUnbannedEvent", "UserUnbanned">>,
   <<"App\\Events\\PinnedMessageCreatedEvent", "PinnedMessageCreated">>,
   <<"App\\Events\\PinnedMessageDeletedEvent", "PinnedMessageDeleted">>,
   <<"App\\Events\\PollUpdateEvent", "PollUpdate">>,
   <<"App\\Events\\PollDeleteEvent", "PollDelete">>,
   <<"pusher:connection_established", "PusherConnectionEstablished">>,
   <<"pusher_internal:subscription_succeeded", "PusherSubscriptionSucceeded">>,
   <<"pusher:pong", "PusherPong">>,
   <<"pusher:ping", "PusherPing">>,
   <<"pusher:error", "PusherError">>}

\* the payload is JSON
WellFormed(data) == data \notin {NoText, NotJSON}

Emitted(calls) ==
  {calls[i].arg : i \in {j \in 1..Len(calls) : calls[j].cb = "emit"}}

\* a text that is no envelope: not JSON, not an object, or without `event`
MalformedEnvelope(text) ==
  \/ text \in {NotJSON, NullText, ScalarText}
  \/ text.json = "envelope" /\ text.event = Undefined

\* an envelope of a supported tag whose payload has not the shape of the
\* tag's kind
IllShaped(text) ==
  /\ text.json = "envelope"
  /\ text.event \in DOMAIN TagType
  /\ text.data # PayloadText(TagType[text.event])

\* C22: a frame that is a malformed envelope, or that has a supported tag
\* and a payload that has not the shape of its kind, is not decoded to an
\* event (decoding it fails), and nothing is dispatched for it.
C22_MalformedNeverDispatched ==
  \A text \in FrameValues :
    (frame = text /\ ParsedTypes(out) # {} /\ (MalformedEnvelope(text) \/ IllShaped(text)))
      => /\ ParsedTypes(out) \subseteq {"throws", "null"}
         /\ Emitted(out) = {}

\* a text whose decoding fails: JSON.parse throws for the envelope or for
\* the payload, or the envelope is the JSON of null
FailsToDecode(text) == parseMessageTry(text).thrown

\* the error callback is called with an error of kind type
Reported(calls, type) == \E i \in 1..Len(calls) : calls[i] = Cb("onError", type, 0)

\* C23: for a frame that fails to decode (received by a client that is not
\* disconnected) the error callback is invoked with an error of kind
\* Websocket, and connection state, transport, heartbeat timer, reconnect
\* timer and subscriptions are unchanged.
C23_DecodeFailureReported ==
  [][\A text \in FrameValues :
       (~isDisconnected /\ frame' = text /\ FailsToDecode(text))
         => /\ Reported(out', WEBSOCKET)
            /\ UNCHANGED <<connectionState, socket, orphans, heartbeatTimer,
                           reconnectTimer, timers, listeners, onceListeners, emitter>>]_vars

\* ---- errors, states and timers of the lifecycle ----

\* the errors the error callback is called with in a sequence of calls
Errors(calls) ==
  {calls[i].arg : i \in {j \in 1..Len(calls) : calls[j].cb = "onError"}}

\* C24: a step invokes the error callback if and only if it emits an `error`
\* event to the subscribers.
C24_ErrorsDeliveredBothWays ==
  [][(Errors(out') # {}) <=> ("error" \in Emitted(out'))]_vars

\* the kinds of the errors connect() results are rejected with in a
\* sequence of calls
Rejections(calls) ==
  {calls[i].arg : i \in {j \in 1..Len(calls) : calls[j].cb = "reject"}}

\* C25: a connect() whose channel resolution fails, and a connect() whose
\* transport reports an error before it opens, are rejected with an error of
\* kind Connection.
C25_RejectsWithConnection ==
  [][/\ \A c \in BagToSet(pending) :
          ResolverFails(c) => Rejections(out') = {CONNECTION}
     /\ \A tr \in AllTransports, cur \in BOOLEAN :
          (/\ SocketError(tr, cur)
           /\ tr.hasListeners /\ tr.readyState = "CONNECTING"
           /\ tr.promise \in {"user", "timer"})
            => Rejections(out') = {CONNECTION}]_vars

\* the transitions of the state table: Disconnected to Connecting,
\* Connecting to Connected or Error, Connected to Disconnected or Error, and
\* the exits of Error the table leaves to the caller and to the reconnection
\* (to Connecting by connect(), to Disconnected by the close that follows a
\* transport error)
TableTransitions ==
  {<<DISCONNECTED, CONNECTING>>,
   <<CONNECTING, CONNECTED>>, <<CONNECTING, ERROR>>,
   <<CONNECTED, DISCONNECTED>>, <<CONNECTED, ERROR>>,
   <<ERROR, CONNECTING>>, <<ERROR, DISCONNECTED>>}

\* C26: every change of ConnectionState is a transition of the table or a
\* move to Disconnected by disconnect(); in particular Connected is entered
\* only from Connecting, and Reconnecting is never entered.
C26_TableTransitionsOnly ==
  [][connectionState' # connectionState =>
       \/ <<connectionState, connectionState'>> \in TableTransitions
       \/ Disconnect /\ connectionState' = DISCONNECTED]_vars

\* client.connect() by a caller that has no other connect() in flight and
\* leaves the reconnection alone
ConnectAlone ==
  /\ pending = EmptyBag
  /\ timers = 0
  /\ \A tr \in AllTransports : tr.readyState # "CONNECTING" /\ tr.promise # "catch"
  /\ Connect

\* Lifecycle: one connect() at a time, an environment that may fail, the
\* reconnection, disconnect() and subscriptions to `error`
NextLifecycle ==
  \/ ConnectAlone
  \/ \E c \in Calls : ResolverReturns(c)
  \/ \E c \in Calls : ResolverFails(c)
  \/ \E tr \in TransportValues, cur \in BOOLEAN : SocketOpen(tr, cur)
  \/ \E tr \in TransportValues, cur \in BOOLEAN : SocketError(tr, cur)
  \/ \E tr \in TransportValues, cur \in BOOLEAN : SocketClose(tr, cur)
  \/ TimerFire
  \/ \E c \in Calls : ReconnectCatchCall(c)
  \/ \E tr \in TransportValues, cur \in BOOLEAN : ReconnectCatchTransport(tr, cur)
  \/ Disconnect
  \/ \E event \in SubEvents, fn \in Fns : On(event, fn)

Lifecycle == InitReconnects /\ [][NextLifecycle]_vars

\* the states the state-change callback is called with in a sequence of
\* calls, in order
StateCalls(calls) == SelectSeq(calls, LAMBDA c : c.cb = "onConnectionStateChange")

\* C27: the state-change callback is invoked once for every change of
\* ConnectionState, with the new state, and not when the state is set to the
\* value it has: the values a step passes to the callback lead from the
\* state before the step to the state after it, each different from the one
\* before it, and a step that does not call it leaves the state unchanged.
C27_CallbackPerChange ==
  [][LET seq == StateCalls(out')
     IN IF seq = <<>> THEN connectionState' = connectionState
        ELSE /\ seq[1].arg # connectionState
             /\ seq[Len(seq)].arg = connectionState'
             /\ \A i \in 1..(Len(seq) - 1) : seq[i].arg # seq[i + 1].arg]_vars

\* the close that follows a transport error has taken the state from Error
\* to Disconnected and the callback has been called for it
C27_Witness ==
  /\ connectionState = DISCONNECTED /\ ~isDisconnected
  /\ StateCalls(out) = <<Cb("onConnectionStateChange", DISCONNECTED, 0)>>
  /\ \E tr \in AllTransports : tr.promise = "catch"

\* scheduleReconnect refuses to arm a timer
Refused ==
  \/ ~options.autoReconnect
  \/ reconnectAttempts >= OrDefault(options.maxReconnectAttempts, DefaultMaxReconnectAttempts)
  \/ isDisconnected

\* the catch block of the timer callback runs: the failure of the attempt
\* the timer fired has been handled
AttemptFailed ==
  \/ \E c \in BagToSet(pending) : ReconnectCatchCall(c)
  \/ \E tr \in AllTransports, cur \in BOOLEAN : ReconnectCatchTransport(tr, cur)

\* the transport of a connect() the timer fired, which has reported an
\* error before it opened, reports its close
FailedAttemptCloses ==
  \E tr \in AllTransports, cur \in BOOLEAN : tr.promise = "catch" /\ SocketClose(tr, cur)

\* C28: when the connect() fired by the reconnect timer fails, by a
\* resolution failure or by a transport error followed by the transport's
\* close, the attempt counter increases by one and one reconnect timer is
\* armed for the failure, none if scheduling is refused: the handling of the
\* failure (the catch block of the timer callback) counts the attempt and
\* arms that timer, and the close of the failed transport arms no second one.
C28_OneTimerPerFailure ==
  [][/\ AttemptFailed =>
          /\ reconnectAttempts' = reconnectAttempts + 1
          /\ timers' = timers + (IF Refused' THEN 0 ELSE 1)
     /\ FailedAttemptCloses => timers' = timers /\ reconnectAttempts' = reconnectAttempts]_vars

\* ---- dispatch and routing ----

\* the callbacks a sequence of calls invokes for event, in order
InvokedFor(calls, event) ==
  LET sel == SelectSeq(calls, LAMBDA c : c.cb = "listener" /\ c.arg = event)
  IN [i \in 1..Len(sel) |-> sel[i].n]

\* the callbacks subscribed to event, in the order of their subscription
Subscribed(event) == [i \in 1..Len(emitter[event]) |-> emitter[event][i].fn]

\* C29: a step that dispatches event X invokes exactly the callbacks
\* subscribed to X when it starts, once per subscription and in the order
\* of the subscriptions, whatever the callbacks do during the dispatch; a
\* step that does not dispatch X invokes none of them.
C29_DispatchIsSnapshot ==
  [][\A event \in RegistryEvents :
       InvokedFor(out', event) = IF event \in Emitted(out') THEN Subscribed(event) ELSE <<>>]_vars

\* the frames of the specification of the routing: every supported tag with
\* a payload of the shape of its kind, a tag outside the switch, and a text
\* that is not JSON
RoutedFrames ==
  {EnvelopeText(tag, PayloadText(TagType[tag])) : tag \in DOMAIN TagType}
  \cup {EnvelopeText(FutureTag, PayloadText("other")), NotJSON}

\* a second client.connect() while the transport of the first is connecting
ConnectOverlapping ==
  /\ socket # NullSocket /\ socket.readyState = "CONNECTING"
  /\ orphans = EmptyBag /\ pending = EmptyBag
  /\ Connect

\* Routing: the frames above, with the transport a second connect() leaves
\* behind, which still delivers frames after disconnect()
NextRouting ==
  \/ ConnectFirst
  \/ ConnectOverlapping
  \/ \E c \in Calls : ResolverReturns(c)
  \/ \E tr \in TransportValues, cur \in BOOLEAN : SocketOpen(tr, cur)
  \/ \E tr \in TransportValues, cur \in BOOLEAN, data \in RoutedFrames : Message(tr, cur, data)
  \/ \E sub \in FrameSubs :
       /\ Len(emitter[sub[1]]) < MaxListeners
       /\ Subscribe(sub[1], sub[2], sub[3])
  \/ Disconnect

Routing == InitFrames /\ [][NextRouting]_vars

\* number of dispatches of event in a sequence of calls
Dispatches(calls, event) ==
  Cardinality({i \in 1..Len(calls) : calls[i].cb = "emit" /\ calls[i].arg = event})

\* the housekeeping kinds of the claim
Housekeeping ==
  {"PusherConnectionEstablished", "PusherSubscriptionSucceeded", "PusherPing", "PusherPong"}

\* C30: the frame the last step received: after disconnect() it is not
\* dispatched; otherwise a frame of an application kind (supported tag,
\* payload of the shape of the kind) is dispatched once, under the event
\* name of its kind and under no other, to the subscribers of that name; a
\* frame of a housekeeping kind, a frame with an unknown tag and a frame
\* that is not JSON are not dispatched.
C30_FrameRouting ==
  \A text \in RoutedFrames :
    frame = text =>
      IF isDisconnected THEN Emitted(out) = {} /\ InvokedFor(out, "ChatMessage") = <<>>
      ELSE /\ \A kind \in AppTypes :
                (text.json = "envelope" /\ <<text.event, kind>> \in KindTable)
                  => /\ Emitted(out) = {kind}
                     /\ Dispatches(out, kind) = 1
                     /\ InvokedFor(out, kind) = Subscribed(kind)
           /\ \A kind \in Housekeeping :
                (text.json = "envelope" /\ <<text.event, kind>> \in KindTable)
                  => Emitted(out) = {}
           /\ (text = NotJSON \/ text.event = FutureTag) => Emitted(out) = {}

\* a subscription frame has been dispatched to the subscriber of its kind
C30_Witness ==
  /\ ~isDisconnected
  /\ frame = EnvelopeText("App\\Events\\SubscriptionEvent", PayloadText("Subscription"))
  /\ Dispatches(out, "Subscription") = 1
  /\ InvokedFor(out, "Subscription") = <<1>>

\* a frame has been received after disconnect()
FrameAfterDisconnect == isDisconnected /\ frame = ChatFrame

\* ---- heartbeat probes ----

\* a tick of the interval timer of startHeartbeat
HeartbeatTick ==
  /\ Idle
  /\ heartbeatTimer
  /\ Commit(heartbeat(Cur))

\* Heartbeat: the lifecycle with the ticks of the heartbeat
NextHeartbeat ==
  \/ Next
  \/ HeartbeatTick

Heartbeat == Init /\ [][NextHeartbeat]_vars

\* the last step sent a probe
ProbeSent == \E i \in 1..Len(out) : out[i].cb = "ping"

\* C31: a step that sends a heartbeat probe begins with ConnectionState
\* Connected and the current transport open, on a client that has not been
\* disconnected; a tick that finds the transport not open sends nothing and
\* throws nothing.
C31_ProbesOnlyWhenConnected ==
  [][/\ ProbeSent' =>
          /\ connectionState = CONNECTED
          /\ socket.readyState = "OPEN"
          /\ ~isDisconnected
     /\ (HeartbeatTick /\ socket.readyState # "OPEN") => (out' = <<>> /\ ~crashed')]_vars

\* ---- the reconnect timer ----

\* C32: at most one reconnect timer is pending, and reconnectTimer is its
\* handle (so that disconnect() clears it).
C32_OnePendingTimer ==
  /\ timers <= 1
  /\ timers = 1 => reconnectTimer

\* ---- the state queries ----

\* client.isConnected() and client.getConnectionState()
isConnected == socket # NullSocket /\ socket.readyState = "OPEN"
getConnectionState == connectionState

\* C33: getConnectionState() is Connected if and only if isConnected().
C33_QueriesAgree == (getConnectionState = CONNECTED) <=> isConnected

\* ---- persistent and one-shot subscriptions of one callback ----

\* the emitter em has an entry of the given kind for fn and event
Registered(em, event, fn, once) ==
  \E i \in 1..Len(em[event]) : em[event][i] = Entry(fn, once)

\* the last step called client.off, client.removeAllListeners or
\* client.disconnect from a callback
Unsubscribing ==
  \E i \in 1..Len(out) :
    out[i].cb = "listener" /\ Behaviour(out[i].n) \in {"off", "disconnect"}

\* C34: the dispatch of a chat frame in which no callback unsubscribes
\* leaves every persistent subscription in force (tracked and registered in
\* the emitter), also the one of a callback whose one-shot subscription to
\* the same event fires in the dispatch.
C34_OnceLeavesPersistent ==
  [][\A tr \in AllTransports, cur \in BOOLEAN, fn \in RegistryFns :
       (/\ Message(tr, cur, ChatFrame)
        /\ Registered(emitter, "ChatMessage", fn, FALSE)
        /\ fn \in listeners["ChatMessage"]
        /\ ~Unsubscribing')
       => /\ Registered(emitter', "ChatMessage", fn, FALSE)
          /\ fn \in listeners'["ChatMessage"]]_vars

====
